---------------------------- MODULE Spec2Model ----------------------------
(***************************************************************************)
(* State-machine model of the dynamic schema-aware query / tool            *)
(* orchestration layer of test-dynamic-sql:                                *)
(*   backend/database.py    (query guard, query execution, table data)     *)
(*   backend/llm_service.py (translator: generate_sql)                     *)
(*   backend/mcp_server.py  (tool server wrapping the two above)           *)
(*   backend/main.py        (tool discovery, session store, chat turn)     *)
(*                                                                         *)
(* Strings that the code inspects character by character (queries, model  *)
(* output, table names) are sequences of one-character strings, so that    *)
(* upper(), strip(), startswith/endswith and the substring test are        *)
(* computed as Python computes them.                                       *)
(***************************************************************************)
EXTENDS Naturals, Integers, Sequences, FiniteSets, TLC

VARIABLES
    GEMINI_API_KEY,     \* environment: is the Gemini credential present
    OPENAI_API_KEY,     \* environment: is the OpenAI credential present
    llm,                \* llm_service module globals, one copy per process
    db_tables,          \* table names the store currently holds
    q_resp,             \* response of the last query-side handler
    q_trace,            \* guard evaluations and statements sent to the store by it
    TOOL_TO_SERVER_MAP, \* main.py routing table: tool name -> server url
    all_function_declarations, \* descriptor list being aggregated by discovery
    d_pc,               \* discovery: "idle" | "running" | "returned"
    d_next,             \* discovery: index of the next server of the registry
    d_listed,           \* discovery: per server, the names it listed in this pass
    d_reachable,        \* discovery: the servers that answered the listing
    d_log,              \* discovery: servers whose failure was printed in this pass
    d_pass,             \* discovery: passes started so far
    d_prev,             \* discovery: the routing table as the current pass found it
    d_view,             \* what the last route lookup of a chat turn saw
    mcp_chat_provider,  \* main.py global
    mcp_chat_model,     \* main.py global: "None" or a record with the tools
    chat_sessions,      \* main.py session store: id -> session data
    heap,               \* the chat objects / message lists session data refer to
    now,                \* time.time()
    turn,               \* the mcp_chat requests in flight, one frame per slot
    clear_resp,         \* response of the DELETE handler that has just run
    schema_cache,       \* database.py _schema_cache of the web process
    s_pc,               \* the web process: "off" | "serving" | "failed"
    s_resp              \* response of the last schema handler

qvars  == <<GEMINI_API_KEY, OPENAI_API_KEY, llm, db_tables, q_resp, q_trace>>
dvars  == <<TOOL_TO_SERVER_MAP, all_function_declarations, d_pc, d_next,
            d_listed, d_reachable, d_log, d_pass, d_prev, d_view>>
cvars  == <<mcp_chat_provider, mcp_chat_model, chat_sessions, heap, now, turn,
            clear_resp>>
svars  == <<schema_cache, s_pc, s_resp>>
vars   == <<qvars, dvars, cvars, svars>>

None == "None"

-----------------------------------------------------------------------------
(* Bounds of the model.                                                    *)

\* pieces of padding the generative backend may put before the query text
MaxPad == 1
\* tool servers in MCP_SERVER_REGISTRY
NumServers == 2
\* tools one server lists
MaxTools == 2
\* discovery passes in the life of the process
MaxPasses == 2
\* turns one session takes before the model stops sending it requests
MaxSessionTurns == 2
\* the last clock reading of the model, in seconds since its start
MaxClock == 3601

-----------------------------------------------------------------------------
(* Character strings.                                                      *)

LowerLetters == <<"a", "b", "c", "d", "e", "f", "g", "h", "i", "j", "k", "l", "m",
                  "n", "o", "p", "q", "r", "s", "t", "u", "v", "w", "x", "y", "z">>
UpperLetters == <<"A", "B", "C", "D", "E", "F", "G", "H", "I", "J", "K", "L", "M",
                  "N", "O", "P", "Q", "R", "S", "T", "U", "V", "W", "X", "Y", "Z">>

\* the letters and their other case, as lookup tables
UpperOf == [c \in {LowerLetters[i] : i \in 1..26} |->
               UpperLetters[CHOOSE i \in 1..26 : LowerLetters[i] = c]]
LowerOf == [c \in {UpperLetters[i] : i \in 1..26} |->
               LowerLetters[CHOOSE i \in 1..26 : UpperLetters[i] = c]]

\* a faulty variant of upper_char: leaves every character as it is
upper_char_identity(c) == c

\* str.upper() on one character
upper_char(c) == IF c \in DOMAIN UpperOf THEN UpperOf[c] ELSE c

\* str.lower() on one character (used to build the inputs only)
lower_char(c) == IF c \in DOMAIN LowerOf THEN LowerOf[c] ELSE c

\* query.upper()
upper(s) == [i \in 1..Len(s) |-> upper_char(s[i])]

\* Python's `needle in hay` on strings
contains(hay, needle) ==
    \E i \in 1..(Len(hay) - Len(needle) + 1) :
        SubSeq(hay, i, i + Len(needle) - 1) = needle

startswith(s, p) == Len(s) >= Len(p) /\ SubSeq(s, 1, Len(p)) = p
endswith(s, p)   == Len(s) >= Len(p) /\ SubSeq(s, Len(s) - Len(p) + 1, Len(s)) = p

Whitespace == {" ", "\n", "\t"}

RECURSIVE lstrip(_)
lstrip(s) == IF s # <<>> /\ Head(s) \in Whitespace THEN lstrip(Tail(s)) ELSE s

RECURSIVE rstrip(_)
rstrip(s) ==
    IF s # <<>> /\ s[Len(s)] \in Whitespace THEN rstrip(SubSeq(s, 1, Len(s) - 1)) ELSE s

\* str.strip()
strip(s) == rstrip(lstrip(s))

-----------------------------------------------------------------------------
(* database.py: the query guard and query execution.                       *)

K_INSERT   == <<"I", "N", "S", "E", "R", "T">>
K_UPDATE   == <<"U", "P", "D", "A", "T", "E">>
K_DELETE   == <<"D", "E", "L", "E", "T", "E">>
K_DROP     == <<"D", "R", "O", "P">>
K_ALTER    == <<"A", "L", "T", "E", "R">>
K_TRUNCATE == <<"T", "R", "U", "N", "C", "A", "T", "E">>
K_REPLACE  == <<"R", "E", "P", "L", "A", "C", "E">>
K_CREATE   == <<"C", "R", "E", "A", "T", "E">>

\* the denylist as the spec words it (section 4.3)
Denylist ==
    {K_INSERT, K_UPDATE, K_DELETE, K_DROP, K_ALTER, K_TRUNCATE, K_REPLACE, K_CREATE}

forbidden_keywords ==
    {K_INSERT, K_UPDATE, K_DELETE, K_DROP, K_ALTER, K_TRUNCATE, K_REPLACE, K_CREATE}

\* any(keyword in query.upper() for keyword in forbidden_keywords)
guard_rejects(query) ==
    LET upper_query == upper(query)
    IN  \E keyword \in forbidden_keywords : contains(upper_query, keyword)

ONLY_SELECT == "Only SELECT queries are allowed."

GuardEv(q, ok) == [ev |-> "guard", q |-> q, ok |-> ok]
DbEv(q)        == [ev |-> "db", q |-> q, ok |-> TRUE]

\* what the store does with a statement it is given
DbOutcomes == {"rows", "empty", "raise"}

DbResult(db) ==
    CASE db = "rows"  -> [data |-> "rows", error |-> None]
      [] db = "empty" -> [data |-> "none", error |-> None]
      [] OTHER        -> [data |-> None, error |-> "db error"]

\* a faulty variant of execute_read_query: the statement is run before the guard decides
execute_read_query_run_first(query, db) ==
    IF guard_rejects(query)
    THEN [result |-> [data |-> None, error |-> ONLY_SELECT],
          trace  |-> <<DbEv(query), GuardEv(query, FALSE)>>]
    ELSE [result |-> DbResult(db),
          trace  |-> <<DbEv(query), GuardEv(query, TRUE)>>]

\* execute_read_query(query): the result dict, and what it did on the way
execute_read_query(query, db) ==
    IF guard_rejects(query)
    THEN [result |-> [data |-> None, error |-> ONLY_SELECT],
          trace  |-> <<GuardEv(query, FALSE)>>]
    ELSE [result |-> DbResult(db),
          trace  |-> <<GuardEv(query, TRUE), DbEv(query)>>]

SELECT_STAR_FROM == <<"S", "E", "L", "E", "C", "T", " ", "*", " ", "F", "R", "O", "M", " ">>

\* get_table_data(table_name): no guard is evaluated on the statement it builds
get_table_data(table_name, tables, db) ==
    IF table_name \notin tables
    THEN [result |-> [data |-> None, error |-> "does not exist"], trace |-> <<>>]
    ELSE [result |-> DbResult(db), trace |-> <<DbEv(SELECT_STAR_FROM \o table_name)>>]

-----------------------------------------------------------------------------
(* llm_service.py: the translator.                                         *)

FALLBACK_SQL == <<"S", "E", "L", "E", "C", "T", " ", "1", " ", "L", "I", "M", "I", "T",
                  " ", "0", ";">>
\* the backquote character (a TLA+ string cannot hold it, so it gets a name)
BQ == "BACKQUOTE"
FENCE_SQL == <<BQ, BQ, BQ, "s", "q", "l">>
FENCE     == <<BQ, BQ, BQ>>

\* a faulty variant of select_provider: the OpenAI credential takes precedence
select_provider_openai_first(gemini_key, openai_key) ==
    IF openai_key THEN "openai" ELSE IF gemini_key THEN "gemini" ELSE None

\* the if / elif / else on the two credentials
select_provider(gemini_key, openai_key) ==
    IF gemini_key THEN "gemini" ELSE IF openai_key THEN "openai" ELSE None

\* initialize_llm_with_schema(schema_text): the module globals afterwards
initialize_llm_with_schema(schema_text, gemini_key, openai_key) ==
    [provider |-> select_provider(gemini_key, openai_key),
     SYSTEM_INSTRUCTION |-> schema_text]

\* the three cleanup ifs and the final strip
cleanup(text) ==
    LET s0 == strip(text)
        s1 == IF startswith(s0, FENCE_SQL) THEN SubSeq(s0, 7, Len(s0)) ELSE s0
        s2 == IF startswith(s1, FENCE) THEN SubSeq(s1, 4, Len(s1)) ELSE s1
        s3 == IF endswith(s2, FENCE) THEN SubSeq(s2, 1, Len(s2) - 3) ELSE s2
    IN  strip(s3)

\* a faulty variant of generate_sql: a failed backend call hands back the empty string
generate_sql_empty_on_failure(g, backend) ==
    IF g.provider = None \/ g.SYSTEM_INSTRUCTION = None THEN FALLBACK_SQL
    ELSE IF backend.kind = "raise" THEN <<>>
    ELSE cleanup(backend.text)

\* does generate_sql get as far as calling the backend
backend_called(g) == g.provider # None /\ g.SYSTEM_INSTRUCTION # None

\* generate_sql(question) in a process whose module globals are g; backend is
\* what the generative backend does with the prompt: it raises or returns text
generate_sql(g, backend) ==
    IF g.provider = None \/ g.SYSTEM_INSTRUCTION = None THEN FALLBACK_SQL
    ELSE IF g.provider \in {"gemini", "openai"}
         THEN IF backend.kind = "raise" THEN FALLBACK_SQL
              ELSE cleanup(backend.text)
         ELSE FALLBACK_SQL

-----------------------------------------------------------------------------
(* Inputs of the query side: what the generative backend and the store do. *)

T_employees   == <<"e", "m", "p", "l", "o", "y", "e", "e", "s">>
T_departments == <<"d", "e", "p", "a", "r", "t", "m", "e", "n", "t", "s">>
T_updates     == <<"u", "p", "d", "a", "t", "e", "s">>
T_missing     == <<"n", "o", "p", "e">>

\* the stores the model is run against: the seeded one, and one with a log table
TableSets == {{T_employees, T_departments}, {T_employees, T_updates}}
TableNameInputs == {T_employees, T_departments, T_updates, T_missing}

W_SELECT1 == <<"S", "E", "L", "E", "C", "T", " ", "1">>
W_DROOP   == <<"D", "R", "O", "O", "P">>
W_UPDAT   == <<"U", "P", "D", "A", "T">>

\* w with the characters at the positions of mask in lower case
Cased(w, mask) == [i \in 1..Len(w) |-> IF i \in mask THEN lower_char(w[i]) ELSE w[i]]

\* the body of a backend answer: a denylisted keyword in every combination of
\* letter cases, a harmless statement, or a near miss of a keyword
Cores ==
    UNION {{Cased(k, mask) : mask \in SUBSET (1..Len(k))} : k \in Denylist}
    \cup {W_SELECT1, FALLBACK_SQL, W_DROOP, W_UPDAT, <<>>}

PrePieces  == {<<" ">>, <<"'">>, FENCE, FENCE_SQL \o <<"\n">>}
PostPieces == {<<>>, <<"'">>, <<";">>, <<"\n">> \o FENCE}

RECURSIVE Pads(_)
Pads(n) == IF n = 0 THEN {<<>>}
           ELSE Pads(n - 1) \cup {p \o q : p \in Pads(n - 1), q \in PrePieces}

\* the texts the backend may answer with
BackendTexts == {pre \o core \o post : pre \in Pads(MaxPad), core \in Cores,
                                        post \in PostPieces}

BackendOutcomes ==
    {[kind |-> "raise", text |-> <<>>]} \cup {[kind |-> "text", text |-> t] : t \in BackendTexts}

Questions == {"", "who manages engineering"}

Procs == {"main", "mcp"}

NoLLM == [provider |-> None, SYSTEM_INSTRUCTION |-> None]

NoResp == [op |-> "none", g |-> NoLLM, backend |-> None, sql |-> <<>>,
           data |-> None, error |-> None, raised |-> 0]

-----------------------------------------------------------------------------
(* The query side as a state machine.                                      *)

QInit ==
    /\ GEMINI_API_KEY \in BOOLEAN
    /\ OPENAI_API_KEY \in BOOLEAN
    /\ llm = [p \in Procs |-> NoLLM]
    /\ db_tables \in TableSets
    /\ q_resp = NoResp
    /\ q_trace = <<>>

\* main.py startup_event / refresh_database_schema: (re)initialise the translator
\* of the web process; the tool-server process never does
InitializeLLM ==
    /\ q_resp.op = "none"
    /\ llm' = [llm EXCEPT !["main"] =
                 initialize_llm_with_schema("schema", GEMINI_API_KEY, OPENAI_API_KEY)]
    /\ UNCHANGED <<GEMINI_API_KEY, OPENAI_API_KEY, db_tables, q_resp, q_trace>>
    /\ UNCHANGED <<dvars, cvars, svars>>

\* the backend is asked only when generate_sql gets as far as the call
BackendChoices(g) ==
    IF backend_called(g) THEN BackendOutcomes ELSE {[kind |-> "uncalled", text |-> <<>>]}

\* the store is asked only when the guard lets the statement through
DbChoices(query) == IF guard_rejects(query) THEN {"unused"} ELSE DbOutcomes

\* main.py POST /query
query_database(question) ==
    /\ q_resp.op = "none"
    /\ llm["main"].SYSTEM_INSTRUCTION # None      \* requests are served after startup
    /\ IF question = ""
       THEN /\ q_resp' = [NoResp EXCEPT !.op = "query", !.raised = 400]
            /\ q_trace' = <<>>
       ELSE \E backend \in BackendChoices(llm["main"]) :
              LET generated_sql_query == generate_sql(llm["main"], backend)
              IN  \E db \in DbChoices(generated_sql_query) :
                    LET r == execute_read_query(generated_sql_query, db)
                    IN  /\ q_resp' = [op |-> "query", g |-> llm["main"],
                                      backend |-> backend.kind,
                                      sql |-> generated_sql_query,
                                      data |-> r.result.data,
                                      error |-> r.result.error, raised |-> 0]
                        /\ q_trace' = r.trace
    /\ UNCHANGED <<GEMINI_API_KEY, OPENAI_API_KEY, llm, db_tables>>
    /\ UNCHANGED <<dvars, cvars, svars>>

\* mcp_server.py tool query_database, run in the tool-server process
mcp_query_database ==
    /\ q_resp.op = "none"
    /\ \E backend \in BackendChoices(llm["mcp"]) :
         LET generated_sql == generate_sql(llm["mcp"], backend)
         IN  \E db \in DbChoices(generated_sql) :
               LET r == execute_read_query(generated_sql, db)
               IN  /\ q_resp' = [op |-> "mcp_query", g |-> llm["mcp"],
                                 backend |-> backend.kind, sql |-> generated_sql,
                                 data |-> r.result.data, error |-> r.result.error,
                                 raised |-> 0]
                   /\ q_trace' = r.trace
    /\ UNCHANGED <<GEMINI_API_KEY, OPENAI_API_KEY, llm, db_tables>>
    /\ UNCHANGED <<dvars, cvars, svars>>

\* the store is asked only for a table it holds
TableDbChoices(table_name) == IF table_name \in db_tables THEN DbOutcomes ELSE {"unused"}

\* main.py GET /tables/{table_name}/data
get_table_raw_data(table_name) ==
    /\ q_resp.op = "none"
    /\ llm["main"].SYSTEM_INSTRUCTION # None
    /\ \E db \in TableDbChoices(table_name) :
         LET r == get_table_data(table_name, db_tables, db)
         IN  /\ q_resp' = [op |-> "table", g |-> NoLLM, backend |-> None, sql |-> <<>>,
                           data |-> r.result.data, error |-> r.result.error,
                           raised |-> IF r.result.error # None THEN 404 ELSE 0]
             /\ q_trace' = r.trace
    /\ UNCHANGED <<GEMINI_API_KEY, OPENAI_API_KEY, llm, db_tables>>
    /\ UNCHANGED <<dvars, cvars, svars>>

\* mcp_server.py tool get_table_raw_data
mcp_get_table_raw_data(table_name) ==
    /\ q_resp.op = "none"
    /\ \E db \in TableDbChoices(table_name) :
         LET r == get_table_data(table_name, db_tables, db)
         IN  /\ q_resp' = [op |-> "mcp_table", g |-> NoLLM, backend |-> None, sql |-> <<>>,
                           data |-> r.result.data, error |-> r.result.error,
                           raised |-> 0]
             /\ q_trace' = r.trace
    /\ UNCHANGED <<GEMINI_API_KEY, OPENAI_API_KEY, llm, db_tables>>
    /\ UNCHANGED <<dvars, cvars, svars>>

\* the response has been sent; the next request can be taken
QReturn ==
    /\ q_resp.op # "none"
    /\ q_resp' = NoResp
    /\ q_trace' = <<>>
    /\ UNCHANGED <<GEMINI_API_KEY, OPENAI_API_KEY, llm, db_tables>>
    /\ UNCHANGED <<dvars, cvars, svars>>

QNext ==
    \/ InitializeLLM
    \/ \E question \in Questions : query_database(question)
    \/ mcp_query_database
    \/ \E table_name \in TableNameInputs : get_table_raw_data(table_name)
    \/ \E table_name \in TableNameInputs : mcp_get_table_raw_data(table_name)
    \/ QReturn

-----------------------------------------------------------------------------
(* main.py: tool discovery over the registry of tool servers.              *)

\* MCP_SERVER_REGISTRY, the servers named by their position in the list
MCP_SERVER_REGISTRY == [i \in 1..NumServers |-> i]

ToolNames == {"query_database", "get_database_schema"}

Range(f) == {f[x] : x \in DOMAIN f}

\* lists of at most n tool names
RECURSIVE ToolLists(_)
ToolLists(n) ==
    IF n = 0 THEN {<<>>}
    ELSE LET S == ToolLists(n - 1)
         IN  S \cup {Append(l, t) : l \in {x \in S : Len(x) = n - 1}, t \in ToolNames}

\* a server's tool names are distinct among themselves
DistinctLists(n) == {l \in ToolLists(n) : Cardinality(Range(l)) = Len(l)}

\* what one server does in a pass: the connection or the listing raises, or it
\* lists tools and the conversion of the tool at position bad raises (0: none does)
ServerOutcomes ==
    {[reachable |-> FALSE, tools |-> <<>>, bad |-> 0]} \cup
    UNION {{[reachable |-> TRUE, tools |-> l, bad |-> b] : b \in 0..Len(l)} :
              l \in DistinctLists(MaxTools)}

EmptyMap == [n \in {} |-> 0]

\* TOOL_TO_SERVER_MAP[name] = server_url
MapPut(m, name, server_url) ==
    [n \in DOMAIN m \cup {name} |-> IF n = name THEN server_url ELSE m[n]]

\* the loop over mcp_tools_list: route the name, convert the schema, append the
\* declaration; a conversion that raises leaves the loop with the name routed
RECURSIVE register_tools(_, _, _, _)
register_tools(reg, server_url, tools, bad) ==
    IF tools = <<>> THEN reg
    ELSE LET routed == [reg EXCEPT !.map = MapPut(reg.map, Head(tools), server_url)]
         IN  IF bad = 1 THEN [routed EXCEPT !.failed = TRUE]
             ELSE register_tools(
                      [routed EXCEPT !.decls =
                          Append(routed.decls,
                                 [name |-> Head(tools), server |-> server_url])],
                      server_url, Tail(tools), IF bad = 0 THEN 0 ELSE bad - 1)

\* one iteration of the loop over the registry: the try block and its except
register_server(reg, server_url, outcome) ==
    IF ~outcome.reachable THEN [reg EXCEPT !.failed = TRUE]
    ELSE register_tools([reg EXCEPT !.failed = FALSE], server_url,
                        outcome.tools, outcome.bad)

\* the whole pass from a reset registry, given what each server does
RECURSIVE run_servers(_, _, _)
run_servers(reg, i, outcomes) ==
    IF i > Len(outcomes) THEN reg
    ELSE run_servers(register_server(reg, MCP_SERVER_REGISTRY[i], outcomes[i]),
                     i + 1, outcomes)

\* a faulty variant of reset_map: the entries of the earlier pass are kept
reset_map_keeps(m) == m

\* TOOL_TO_SERVER_MAP = {} at the entry of a pass
reset_map(m) == EmptyMap

EmptyRegistry == [map |-> EmptyMap, decls |-> <<>>, failed |-> FALSE]

\* TOOL_TO_SERVER_MAP.get(tool_name), 0 standing for None
route_get(m, tool_name) == IF tool_name \in DOMAIN m THEN m[tool_name] ELSE 0

\* no lookup to report
NoView == [name |-> None, server |-> 0, during |-> FALSE, done |-> FALSE,
           table |-> EmptyMap, prev |-> EmptyMap]

get_tools_from_all_mcp_servers(outcomes) == run_servers(EmptyRegistry, 1, outcomes)


-----------------------------------------------------------------------------
(* main.py: provider selection, the session store and the chat turn.       *)

\* the module-level if / elif / else of main.py on the two credentials
main_provider(gemini_key, openai_key) ==
    IF gemini_key THEN "gemini" ELSE IF openai_key THEN "openai" ELSE None

\* mcp_chat_model = None
NoModel == [kind |-> None, tools |-> <<>>]

\* startup_event after discovery: the chat model and the tools it is built with
build_chat_model(provider, decls) ==
    CASE provider = "gemini" -> [kind |-> "gemini", tools |-> decls]
      [] provider = "openai" -> [kind |-> "openai", tools |-> decls]
      [] OTHER               -> NoModel

SESSION_TIMEOUT == 3600

\* session ids a client supplies, and the one uuid4() the model can draw
ClientSessionIds == {"a"}
UuidSessionIds   == {"uuid-1"}
SessionIds       == ClientSessionIds \cup UuidSessionIds

\* the slots for requests in flight, and the one the sequential runs use
Turns == {"t1", "t2"}
SeqTurns == {"t1"}

\* the clock readings at which something happens after the start: the last
\* second a session idle since the start is kept, and the one after it
ClockPoints == {SESSION_TIMEOUT, SESSION_TIMEOUT + 1}

EmptyStore == [sid \in {} |-> 0]
EmptyHeap  == [o \in {} |-> 0]

Msg(role, t) == [role |-> role, t |-> t]

\* a faulty variant of cleanup_old_sessions: a session idle for exactly the
\* timeout is removed as well
cleanup_old_sessions_at_timeout(sessions, current_time) ==
    LET expired == {sid \in DOMAIN sessions :
                       current_time - sessions[sid].last_accessed >= SESSION_TIMEOUT}
    IN  [sid \in DOMAIN sessions \ expired |-> sessions[sid]]

\* a faulty variant of cleanup_old_sessions: nothing is swept
cleanup_old_sessions_never(sessions, current_time) == sessions

\* cleanup_old_sessions(): the store without the sessions idle for longer than the timeout
cleanup_old_sessions(sessions, current_time) ==
    LET expired == {sid \in DOMAIN sessions :
                       current_time - sessions[sid].last_accessed > SESSION_TIMEOUT}
    IN  [sid \in DOMAIN sessions \ expired |-> sessions[sid]]

\* no object
NoObj == 0

\* the smallest object identity not in use
NewObj(h) == CHOOSE o \in 1..(Cardinality(DOMAIN h) + 1) : o \notin DOMAIN h

\* a faulty variant of touch_session: last_accessed is left as it was
touch_session_stale(swept, session_id, current_time) == swept

\* the branch of get_or_create_chat_session for a session that is in the store
touch_session(swept, session_id, current_time) ==
    [swept EXCEPT ![session_id].last_accessed = current_time]

\* a faulty variant of get_or_create_chat_session: a request on a stored session
\* is handed a copy of its history as an object of its own
get_or_create_chat_session_private(sessions, h, session_id, model, provider, current_time) ==
    LET swept == cleanup_old_sessions(sessions, current_time)
        o == NewObj(h)
        initial == IF session_id \in DOMAIN swept THEN h[swept[session_id].chat]
                   ELSE IF provider = "gemini" THEN <<>>
                   ELSE <<Msg("system", "none")>>
    IN  IF model = NoModel
        THEN [raised |-> TRUE, sessions |-> swept, heap |-> h, chat |-> NoObj]
        ELSE [raised   |-> FALSE,
              sessions |-> [sid \in DOMAIN swept \cup {session_id} |->
                               IF sid = session_id
                               THEN [chat |-> o, last_accessed |-> current_time]
                               ELSE swept[sid]],
              heap     |-> [x \in DOMAIN h \cup {o} |-> IF x = o THEN initial ELSE h[x]],
              chat     |-> o]

\* get_or_create_chat_session(session_id): the store and heap afterwards, the
\* object returned, or the 503 it raises
get_or_create_chat_session(sessions, h, session_id, model, provider, current_time) ==
    LET swept == cleanup_old_sessions(sessions, current_time)
    IN  IF model = NoModel
        THEN [raised |-> TRUE, sessions |-> swept, heap |-> h, chat |-> NoObj]
        ELSE IF session_id \notin DOMAIN swept
             THEN LET o == NewObj(h)
                      initial == IF provider = "gemini" THEN <<>>
                                 ELSE <<Msg("system", "none")>>
                  IN  [raised   |-> FALSE,
                       sessions |-> [sid \in DOMAIN swept \cup {session_id} |->
                                        IF sid = session_id
                                        THEN [chat |-> o, last_accessed |-> current_time]
                                        ELSE swept[sid]],
                       heap     |-> [x \in DOMAIN h \cup {o} |->
                                        IF x = o THEN initial ELSE h[x]],
                       chat     |-> o]
             ELSE [raised   |-> FALSE,
                   sessions |-> touch_session(swept, session_id, current_time),
                   heap     |-> h,
                   chat     |-> swept[session_id].chat]

\* what the model does with a message it is sent
\*   raise:    the call raises (transport, quota, blocked or empty candidates)
\*   text:     a text answer
\*   no_parts: an answer whose content has no parts
\*   bad_text: an answer whose .text cannot be read (mixed or non-text parts)
\*   call:     the first part is a function call naming one tool
RequestedTools == {"query_database", "get_database_schema"}
ModelOutcomes ==
    {[kind |-> k, tool |-> None] : k \in {"raise", "text", "no_parts", "bad_text"}}
    \cup {[kind |-> "call", tool |-> n] : n \in RequestedTools}

\* what the tool server does with call_tool
\*   raise:      connecting or calling raises
\*   no_content: a result without content
\*   empty:      a result whose content list is empty
\*   bad_json:   content whose text is not JSON
\*   ok:         content whose text is a JSON document
ToolOutcomes == {"raise", "no_content", "empty", "bad_json", "ok"}

Payload(error, data) == [error |-> error, data |-> data]
NoPayload == Payload(None, None)

\* a faulty variant of tool_result_data: a failed call propagates instead of being caught
tool_result_data_propagates(outcome) ==
    CASE outcome = "raise"      -> [raised |-> TRUE, payload |-> NoPayload]
      [] outcome = "no_content" -> [raised |-> FALSE,
                                    payload |-> Payload("No result from MCP server", None)]
      [] outcome = "empty"      -> [raised |-> FALSE, payload |-> Payload(None, "empty")]
      [] outcome = "bad_json"   -> [raised |-> TRUE, payload |-> NoPayload]
      [] OTHER                  -> [raised |-> FALSE, payload |-> Payload(None, "data")]

\* lines 279-290: mcp_result_data after the call to the owning server
tool_result_data(outcome) ==
    CASE outcome = "raise"      -> [raised |-> FALSE,
                                    payload |-> Payload("MCP server error", None)]
      [] outcome = "no_content" -> [raised |-> FALSE,
                                    payload |-> Payload("No result from MCP server", None)]
      [] outcome = "empty"      -> [raised |-> FALSE, payload |-> Payload(None, "empty")]
      [] outcome = "bad_json"   -> [raised |-> FALSE,
                                    payload |-> Payload("MCP server error", None)]
      [] OTHER                  -> [raised |-> FALSE, payload |-> Payload(None, "data")]

NoRoutePayload == Payload("No server registered for tool", None)

\* ChatSession.send_message on a chat object: a call that returns records what
\* was sent and what came back; a call that raises records nothing
send_message(history, sent_role, outcome, t) ==
    IF outcome.kind = "raise" THEN history
    ELSE history \o <<Msg(sent_role, t),
                      Msg(IF outcome.kind = "call" THEN "function_call" ELSE "model", t)>>

Resp(type, session_id, tool_used, tool_result, response) ==
    [type |-> type, session_id |-> session_id, tool_used |-> tool_used,
     tool_result |-> tool_result, response |-> response]

\* a faulty variant of on_exception: the exception is raised again as an HTTP 500
on_exception_reraise(session_id, e) ==
    Resp("raised", None, None, NoPayload, <<"MCP Chat error", e>>)

\* the outer except clause of mcp_chat
on_exception(session_id, e) ==
    Resp("error", session_id, None, NoPayload, <<"Chat error", e>>)

NoAnswer == Resp("none", None, None, NoPayload, <<None, None>>)

\* the frame of a request: where it stands, its locals, and for the record what
\* happened to it (the history it found, who it contacted, what failed)
IdleTurn ==
    [pc |-> "idle", session_id |-> None, chat |-> NoObj, before |-> <<>>,
     tool_name |-> None, server_url |-> 0, contacted |-> <<>>,
     tool_outcome |-> None, sends |-> 0, sent_tools |-> <<>>,
     function_response |-> NoPayload, failure |-> None, resp |-> NoAnswer]

\* objects still referred to by the store or by a request in flight
Live(sessions, tn) ==
    {sessions[sid].chat : sid \in DOMAIN sessions}
    \cup {tn[t].chat : t \in {x \in Turns : tn[x].chat # NoObj}}

Collect(h, sessions, tn) ==
    [o \in DOMAIN h \cap Live(sessions, tn) |-> h[o]]

\* a faulty variant of finish_tool_turn: a tool request in the second response
\* is carried out as well and the model is asked a third time
finish_tool_turn_chained(fr, history, payload, second, t) ==
    LET h2 == send_message(history, "function_response", second, t)
        f  == [fr EXCEPT !.sends = fr.sends + 1, !.function_response = payload]
    IN  IF second.kind = "raise"
        THEN [frame |-> [f EXCEPT !.pc = "answered", !.failure = "model call failed",
                            !.resp = on_exception(fr.session_id, "model call failed")],
              history |-> h2]
        ELSE IF second.kind \in {"bad_text", "no_parts"}
        THEN [frame |-> [f EXCEPT !.pc = "answered", !.failure = "malformed response",
                            !.resp = on_exception(fr.session_id, "malformed response")],
              history |-> h2]
        ELSE IF second.kind = "call"
        THEN [frame |-> [f EXCEPT !.pc = "answered", !.sends = fr.sends + 2,
                            !.contacted = Append(fr.contacted, 1),
                            !.resp = Resp("mcp_tool", fr.session_id, second.tool,
                                          payload, <<"final text", None>>)],
              history |-> h2 \o <<Msg("function_response", t), Msg("model", t)>>]
        ELSE [frame |-> [f EXCEPT !.pc = "answered",
                            !.resp = Resp("mcp_tool", fr.session_id, fr.tool_name,
                                          payload, <<"final text", None>>)],
              history |-> h2]

\* lines 292-314: the tool result goes back to the model and the turn answers
finish_tool_turn(fr, history, payload, second, t) ==
    LET h2 == send_message(history, "function_response", second, t)
        f  == [fr EXCEPT !.sends = fr.sends + 1, !.function_response = payload]
    IN  IF second.kind = "raise"
        THEN [frame |-> [f EXCEPT !.pc = "answered", !.failure = "model call failed",
                            !.resp = on_exception(fr.session_id, "model call failed")],
              history |-> h2]
        ELSE IF second.kind \in {"bad_text", "call", "no_parts"}
        THEN [frame |-> [f EXCEPT !.pc = "answered", !.failure = "malformed response",
                            !.resp = on_exception(fr.session_id, "malformed response")],
              history |-> h2]
        ELSE [frame |-> [f EXCEPT !.pc = "answered",
                            !.resp = Resp("mcp_tool", fr.session_id, fr.tool_name,
                                          payload, <<"final text", None>>)],
              history |-> h2]

\* the except clause around the OpenAI call
openai_error(session_id, e) ==
    Resp("error", session_id, None, NoPayload, <<"Error with OpenAI", e>>)

UserTurns(history) == Cardinality({i \in 1..Len(history) : history[i].role = "user"})

\* the second answer of the model is asked for only when the turn gets that far
SecondChoices(first, routes) ==
    IF first.kind = "call" /\ first.tool \notin DOMAIN routes
    THEN ModelOutcomes ELSE {[kind |-> "unused", tool |-> None]}

\* lines 258-323: the Gemini branch up to its first suspension or its answer
gemini_turn(fr, history, first, second, t, routes) ==
    LET h1 == send_message(history, "user", first, t)
        f  == [fr EXCEPT !.sends = 1]
    IN  CASE first.kind = "raise" ->
               [frame |-> [f EXCEPT !.pc = "answered", !.failure = "model call failed",
                              !.resp = on_exception(fr.session_id, "model call failed")],
                history |-> h1]
          [] first.kind = "bad_text" ->
               [frame |-> [f EXCEPT !.pc = "answered", !.failure = "malformed response",
                              !.resp = on_exception(fr.session_id, "malformed response")],
                history |-> h1]
          [] first.kind = "no_parts" ->
               [frame |-> [f EXCEPT !.pc = "answered",
                              !.resp = Resp("direct", fr.session_id, None, NoPayload,
                                            <<"I'm not sure how to respond to that.", None>>)],
                history |-> h1]
          [] first.kind = "text" ->
               [frame |-> [f EXCEPT !.pc = "answered",
                              !.resp = Resp("direct", fr.session_id, None, NoPayload,
                                            <<"text", None>>)],
                history |-> h1]
          [] OTHER ->
               IF first.tool \notin DOMAIN routes
               THEN finish_tool_turn([f EXCEPT !.tool_name = first.tool], h1,
                                     NoRoutePayload, second, t)
               ELSE [frame |-> [f EXCEPT !.pc = "awaiting_tool",
                                   !.tool_name = first.tool,
                                   !.server_url = routes[first.tool],
                                   !.contacted = <<routes[first.tool]>>],
                     history |-> h1]

\* lines 325-349: the OpenAI branch
openai_turn(fr, history, first, t) ==
    LET messages == Append(history, Msg("user", t))
        f == [fr EXCEPT !.sends = 1]
    IN  IF first.kind = "raise"
        THEN [frame |-> [f EXCEPT !.pc = "answered", !.failure = "model call failed",
                            !.resp = openai_error(fr.session_id, "model call failed")],
              history |-> messages]
        ELSE [frame |-> [f EXCEPT !.pc = "answered",
                            !.resp = Resp("direct", fr.session_id, None, NoPayload,
                                            <<"text", None>>)],
              history |-> Append(messages, Msg("assistant", t))]

\* a faulty variant of HeapPut: every history of the process is overwritten
HeapPut_everywhere(h, o, history) == [x \in DOMAIN h |-> history]

\* the chat object o holds the history given; the others are left alone
HeapPut(h, o, history) == [x \in DOMAIN h |-> IF x = o THEN history ELSE h[x]]

\* the answers the active backend can give to the first call of a turn
FirstChoices(provider) ==
    IF provider = "openai" THEN {o \in ModelOutcomes : o.kind \in {"raise", "text"}}
    ELSE ModelOutcomes

\* no DELETE has just been answered
NoClearResp == [message |-> None, session_id |-> None, raised |-> 0]

\* the tool descriptors that go out with the first model call of a turn:
\* the Gemini chat object carries those of its model; the OpenAI call at
\* lines 331-334 passes the model name and the messages only
first_call_tools(provider, model) ==
    IF provider = "gemini" THEN model.tools ELSE <<>>

\* POST /mcp-chat, from the request to the first suspension or to the answer
ChatStart(t, requested_id) ==
    /\ d_pc = "returned"
    /\ turn[t].pc = "idle"
    /\ \E session_id \in SessionIds :
         /\ IF requested_id = None
            THEN session_id \in UuidSessionIds \ DOMAIN chat_sessions
            ELSE session_id = requested_id
         /\ session_id \in DOMAIN chat_sessions =>
                UserTurns(heap[chat_sessions[session_id].chat]) < MaxSessionTurns
         /\ LET g  == get_or_create_chat_session(chat_sessions, heap, session_id,
                                                 mcp_chat_model, mcp_chat_provider, now)
                fr == [IdleTurn EXCEPT !.session_id = session_id]
            IN  IF g.raised
                THEN /\ chat_sessions' = g.sessions
                     /\ turn' = [turn EXCEPT ![t] =
                                   [fr EXCEPT !.pc = "answered",
                                              !.failure = "503: MCP Chat model is initializing",
                                              !.resp = on_exception(session_id,
                                                  "503: MCP Chat model is initializing")]]
                     /\ heap' = Collect(heap, chat_sessions', turn')
                ELSE \E first \in FirstChoices(mcp_chat_provider) :
                     \E second \in SecondChoices(first, TOOL_TO_SERVER_MAP) :
                       LET fr1 == [fr EXCEPT !.chat = g.chat, !.before = g.heap[g.chat],
                                              !.sent_tools = first_call_tools(
                                                  mcp_chat_provider, mcp_chat_model)]
                           r == IF mcp_chat_provider = "gemini"
                                THEN gemini_turn(fr1, g.heap[g.chat], first, second, t,
                                                 TOOL_TO_SERVER_MAP)
                                ELSE openai_turn(fr1, g.heap[g.chat], first, t)
                       IN  /\ chat_sessions' = g.sessions
                           /\ turn' = [turn EXCEPT ![t] = r.frame]
                           /\ heap' = Collect(HeapPut(g.heap, g.chat, r.history),
                                              chat_sessions', turn')
    /\ clear_resp' = NoClearResp
    /\ UNCHANGED <<mcp_chat_provider, mcp_chat_model, now>>
    /\ UNCHANGED <<qvars, dvars, svars>>

\* the tool server has answered (or failed): the rest of the Gemini branch
ChatResume(t) ==
    /\ turn[t].pc = "awaiting_tool"
    /\ \E tool_outcome \in ToolOutcomes, second \in ModelOutcomes :
       LET fr == [turn[t] EXCEPT !.tool_outcome = tool_outcome]
           d  == tool_result_data(tool_outcome)
           r  == IF d.raised
                 THEN [frame |-> [fr EXCEPT !.pc = "answered",
                                     !.failure = "tool call failed",
                                     !.resp = on_exception(fr.session_id, "tool call failed")],
                       history |-> heap[fr.chat]]
                 ELSE finish_tool_turn(fr, heap[fr.chat], d.payload, second, t)
       IN  /\ turn' = [turn EXCEPT ![t] = r.frame]
           /\ heap' = Collect(HeapPut(heap, fr.chat, r.history), chat_sessions, turn')
    /\ clear_resp' = NoClearResp
    /\ UNCHANGED <<mcp_chat_provider, mcp_chat_model, chat_sessions, now>>
    /\ UNCHANGED <<qvars, dvars, svars>>

\* the answer has been sent: the request's frame is gone
ChatReturn(t) ==
    /\ turn[t].pc = "answered"
    /\ turn' = [turn EXCEPT ![t] = IdleTurn]
    /\ heap' = Collect(heap, chat_sessions, turn')
    /\ clear_resp' = NoClearResp
    /\ UNCHANGED <<mcp_chat_provider, mcp_chat_model, chat_sessions, now>>
    /\ UNCHANGED <<qvars, dvars, svars>>

\* a faulty variant of clear_chat_session: the whole store is emptied
clear_chat_session_all(session_id) ==
    /\ d_pc = "returned"
    /\ clear_resp' = [message |-> IF session_id \in DOMAIN chat_sessions
                                  THEN "Session cleared" ELSE "Session not found",
                      session_id |-> session_id,
                      raised |-> 0]
    /\ chat_sessions' = IF session_id \in DOMAIN chat_sessions
                        THEN EmptyStore ELSE chat_sessions
    /\ heap' = Collect(heap, chat_sessions', turn)
    /\ UNCHANGED <<mcp_chat_provider, mcp_chat_model, now, turn>>
    /\ UNCHANGED <<qvars, dvars, svars>>

\* DELETE /mcp-chat/session/{session_id}
clear_chat_session(session_id) ==
    /\ d_pc = "returned"
    /\ clear_resp' = [message |-> IF session_id \in DOMAIN chat_sessions
                                  THEN "Session cleared" ELSE "Session not found",
                      session_id |-> session_id,
                      raised |-> 0]
    /\ chat_sessions' = IF session_id \in DOMAIN chat_sessions
                        THEN [sid \in DOMAIN chat_sessions \ {session_id} |->
                                 chat_sessions[sid]]
                        ELSE chat_sessions
    /\ heap' = Collect(heap, chat_sessions', turn)
    /\ UNCHANGED <<mcp_chat_provider, mcp_chat_model, now, turn>>
    /\ UNCHANGED <<qvars, dvars, svars>>

\* a faulty variant of Tick: a request that waits for a tool server when the
\* clock moves is answered with a timeout error
Tick_times_out(d) ==
    /\ now < d
    /\ d <= MaxClock
    /\ now' = d
    /\ clear_resp' = NoClearResp
    /\ turn' = [t \in Turns |->
                  IF turn[t].pc = "awaiting_tool"
                  THEN [turn[t] EXCEPT !.pc = "answered", !.failure = "timeout",
                                       !.resp = on_exception(turn[t].session_id, "timeout")]
                  ELSE turn[t]]
    /\ UNCHANGED <<mcp_chat_provider, mcp_chat_model, chat_sessions, heap>>
    /\ UNCHANGED <<qvars, dvars, svars>>

\* time passes
Tick(d) ==
    /\ now < d
    /\ d <= MaxClock
    /\ now' = d
    /\ clear_resp' = NoClearResp
    /\ UNCHANGED <<mcp_chat_provider, mcp_chat_model, chat_sessions, heap, turn>>
    /\ UNCHANGED <<qvars, dvars, svars>>

\* the module globals of main.py when the module has been imported
CInit ==
    /\ mcp_chat_provider = None
    /\ mcp_chat_model = NoModel
    /\ chat_sessions = EmptyStore
    /\ heap = EmptyHeap
    /\ now = 0
    /\ turn = [t \in Turns |-> IdleTurn]
    /\ clear_resp = NoClearResp

CNext ==
    \/ \E t \in SeqTurns, requested_id \in ClientSessionIds \cup {None} :
           ChatStart(t, requested_id)
    \/ \E t \in SeqTurns : ChatResume(t)
    \/ \E t \in SeqTurns : ChatReturn(t)
    \/ \E session_id \in SessionIds : clear_chat_session(session_id)
    \/ \E d \in ClockPoints : Tick(d)

DInit ==
    /\ TOOL_TO_SERVER_MAP = EmptyMap
    /\ all_function_declarations = <<>>
    /\ d_pc = "idle"
    /\ d_next = 1
    /\ d_listed = [i \in 1..NumServers |-> {}]
    /\ d_reachable = {}
    /\ d_log = {}
    /\ d_pass = 0
    /\ d_prev = EmptyMap
    /\ d_view = NoView

\* startup_event up to the first server: the provider is fixed, the translator is
\* initialised, get_tools_from_all_mcp_servers is entered and resets the map
DiscoveryStart ==
    /\ d_pc = "idle"
    /\ mcp_chat_provider' = main_provider(GEMINI_API_KEY, OPENAI_API_KEY)
    /\ llm' = [llm EXCEPT !["main"] =
                 initialize_llm_with_schema("schema", GEMINI_API_KEY, OPENAI_API_KEY)]
    /\ UNCHANGED <<GEMINI_API_KEY, OPENAI_API_KEY, db_tables, q_resp, q_trace>>
    /\ UNCHANGED <<mcp_chat_model, chat_sessions, heap, now, turn, clear_resp, svars>>
    /\ TOOL_TO_SERVER_MAP' = reset_map(TOOL_TO_SERVER_MAP)
    /\ all_function_declarations' = <<>>
    /\ d_pc' = "running"
    /\ d_next' = 1
    /\ d_listed' = [i \in 1..NumServers |-> {}]
    /\ d_reachable' = {}
    /\ d_log' = {}
    /\ d_pass' = 1
    /\ d_prev' = TOOL_TO_SERVER_MAP
    /\ d_view' = NoView

\* get_tools_from_all_mcp_servers is entered again while the application serves
Rediscover ==
    /\ d_pc = "returned"
    /\ d_pass < MaxPasses
    /\ TOOL_TO_SERVER_MAP' = reset_map(TOOL_TO_SERVER_MAP)
    /\ all_function_declarations' = <<>>
    /\ d_pc' = "running"
    /\ d_next' = 1
    /\ d_listed' = [i \in 1..NumServers |-> {}]
    /\ d_reachable' = {}
    /\ d_log' = {}
    /\ d_pass' = d_pass + 1
    /\ d_prev' = TOOL_TO_SERVER_MAP
    /\ d_view' = NoView
    /\ UNCHANGED <<qvars, cvars, svars>>

\* mcp_chat line 273 in a turn served while discovery stands where it stands
LookupRoute(tool_name) ==
    /\ d_pass > 1 \/ d_pc = "returned"
    /\ d_view' = [name |-> tool_name,
                  server |-> route_get(TOOL_TO_SERVER_MAP, tool_name),
                  during |-> d_pc = "running",
                  done |-> d_next > NumServers,
                  table |-> TOOL_TO_SERVER_MAP,
                  prev |-> d_prev]
    /\ UNCHANGED <<TOOL_TO_SERVER_MAP, all_function_declarations, d_pc, d_next,
                   d_listed, d_reachable, d_log, d_pass, d_prev>>
    /\ UNCHANGED <<qvars, cvars, svars>>

\* one server of the registry is connected to, lists its tools and each is registered
DiscoverServer(outcome) ==
    /\ d_pc = "running"
    /\ d_next <= NumServers
    /\ LET reg == register_server([map |-> TOOL_TO_SERVER_MAP,
                                   decls |-> all_function_declarations,
                                   failed |-> FALSE],
                                  MCP_SERVER_REGISTRY[d_next], outcome)
       IN  /\ TOOL_TO_SERVER_MAP' = reg.map
           /\ all_function_declarations' = reg.decls
           /\ d_log' = IF reg.failed THEN d_log \cup {d_next} ELSE d_log
           /\ d_pc' = "running"
    /\ d_listed' = [d_listed EXCEPT ![d_next] =
                       IF outcome.reachable THEN Range(outcome.tools) ELSE {}]
    /\ d_reachable' = IF outcome.reachable THEN d_reachable \cup {d_next} ELSE d_reachable
    /\ d_next' = d_next + 1
    /\ d_view' = NoView
    /\ UNCHANGED <<d_pass, d_prev>>
    /\ UNCHANGED <<qvars, cvars, svars>>

\* the loop is over: genai.protos.Tool(function_declarations=...) is returned and
\* startup_event builds the chat model with it
DiscoveryReturn ==
    /\ d_pc = "running"
    /\ d_next > NumServers
    /\ d_pc' = "returned"
    /\ mcp_chat_model' = IF d_pass = 1
                         THEN build_chat_model(mcp_chat_provider, all_function_declarations)
                         ELSE mcp_chat_model
    /\ d_view' = NoView
    /\ UNCHANGED <<TOOL_TO_SERVER_MAP, all_function_declarations, d_next, d_listed,
                   d_reachable, d_log, d_pass, d_prev>>
    /\ UNCHANGED <<qvars, mcp_chat_provider, chat_sessions, heap, now, turn,
                   clear_resp, svars>>

DNext ==
    \/ DiscoveryStart
    \/ \E outcome \in ServerOutcomes : DiscoverServer(outcome)
    \/ DiscoveryReturn

\* discovery run again while the application serves, and the route lookups of
\* the chat turns served meanwhile
RNext ==
    \/ Rediscover
    \/ \E outcome \in ServerOutcomes : DiscoverServer(outcome)
    \/ DiscoveryReturn
    \/ \E tool_name \in RequestedTools : LookupRoute(tool_name)

-----------------------------------------------------------------------------
(* database.py schema cache, main.py startup and schema refresh.           *)

\* what the inspector reports for the tables a store of the model may hold:
\* the seeded departments and employees, and a log table with a composite
\* primary key, a composite foreign key and a reference to a table that was
\* never created (SQLite accepts it; the inspector then reports the key with
\* no referred columns)
T_ghost == <<"g", "h", "o", "s", "t">>

\* inspector.get_table_names(): the names in the order the inspector lists them
get_table_names(tables) ==
    SelectSeq(<<T_departments, T_employees, T_updates>>, LAMBDA n : n \in tables)

\* inspector.get_columns(table_name)
get_columns(table_name) ==
    CASE table_name = T_departments ->
             <<[name |-> "id", type |-> "INTEGER", nullable |-> FALSE],
               [name |-> "name", type |-> "VARCHAR", nullable |-> TRUE]>>
      [] table_name = T_employees ->
             <<[name |-> "id", type |-> "INTEGER", nullable |-> FALSE],
               [name |-> "name", type |-> "VARCHAR", nullable |-> TRUE],
               [name |-> "department_id", type |-> "INTEGER", nullable |-> TRUE]>>
      [] OTHER ->
             <<[name |-> "employee_id", type |-> "INTEGER", nullable |-> FALSE],
               [name |-> "department_id", type |-> "INTEGER", nullable |-> FALSE],
               [name |-> "note_id", type |-> "INTEGER", nullable |-> TRUE]>>

\* inspector.get_pk_constraint(table_name)
get_pk_constraint(table_name) ==
    CASE table_name \in {T_departments, T_employees} -> [constrained_columns |-> <<"id">>]
      [] OTHER -> [constrained_columns |-> <<"employee_id", "department_id">>]

\* inspector.get_foreign_keys(table_name)
get_foreign_keys(table_name) ==
    CASE table_name = T_departments -> <<>>
      [] table_name = T_employees ->
             <<[constrained_columns |-> <<"department_id">>,
                referred_table |-> T_departments, referred_columns |-> <<"id">>]>>
      [] OTHER ->
             <<[constrained_columns |-> <<"employee_id", "department_id">>,
                referred_table |-> T_employees,
                referred_columns |-> <<"id", "department_id">>],
               [constrained_columns |-> <<"note_id">>,
                referred_table |-> T_ghost, referred_columns |-> <<>>]>>

\* lines 160-168: the column descriptors of one table
column_info(table_name) ==
    LET columns == get_columns(table_name)
        pk_constraint == get_pk_constraint(table_name)
    IN  [i \in 1..Len(columns) |->
            [name |-> columns[i].name, type |-> columns[i].type,
             nullable |-> columns[i].nullable,
             primary_key |-> columns[i].name \in Range(pk_constraint.constrained_columns)]]

\* a faulty variant of fk_edges: one edge per foreign key, whatever its width
fk_edges_first_only(table_name, fk) ==
    [i \in 1..1 |->
        [from_table |-> table_name, from_column |-> fk.constrained_columns[i],
         to_table |-> fk.referred_table,
         to_column |-> IF i <= Len(fk.referred_columns)
                       THEN fk.referred_columns[i] ELSE "id"]]

\* lines 177-183: the edges of one foreign key, one per constrained column
fk_edges(table_name, fk) ==
    [i \in 1..Len(fk.constrained_columns) |->
        [from_table |-> table_name, from_column |-> fk.constrained_columns[i],
         to_table |-> fk.referred_table,
         to_column |-> IF i <= Len(fk.referred_columns)
                       THEN fk.referred_columns[i] ELSE "id"]]

\* the concatenation of a sequence of sequences
RECURSIVE Flatten(_)
Flatten(ss) == IF ss = <<>> THEN <<>> ELSE Head(ss) \o Flatten(Tail(ss))

\* lines 176-183: the edges of one table, in the order of its foreign keys
table_edges(table_name) ==
    LET foreign_keys == get_foreign_keys(table_name)
    IN  Flatten([k \in 1..Len(foreign_keys) |-> fk_edges(table_name, foreign_keys[k])])

\* lines 150-183: the description built by the loop over the table names
schema_info(tables) ==
    LET table_names == get_table_names(tables)
    IN  [tables |-> [i \in 1..Len(table_names) |->
                        [table_name |-> table_names[i],
                         columns |-> column_info(table_names[i])]],
         relationships |-> Flatten([i \in 1..Len(table_names) |->
                                       table_edges(table_names[i])])]

\* {"tables": [], "relationships": []}
EmptyInfo == [tables |-> <<>>, relationships |-> <<>>]

\* _schema_cache = None, and _schema_cache = info
NoCache == [held |-> FALSE, info |-> EmptyInfo]
Cached(info) == [held |-> TRUE, info |-> info]

\* what the store holds when its schema is read
SchemaTableSets == SUBSET {T_departments, T_employees, T_updates}

\* detect_schema(): what it returns or that it raises, and the cache afterwards
detect_schema(cache, tables, inspect_fails) ==
    IF inspect_fails THEN [raised |-> TRUE, info |-> EmptyInfo, cache |-> cache]
    ELSE IF get_table_names(tables) = <<>>
    THEN [raised |-> FALSE, info |-> EmptyInfo, cache |-> cache]
    ELSE [raised |-> FALSE, info |-> schema_info(tables),
          cache |-> Cached(schema_info(tables))]

\* refresh_schema(): the cache is cleared, then detect_schema runs
refresh_schema(cache, tables, inspect_fails) ==
    detect_schema(NoCache, tables, inspect_fails)

\* get_schema(): the result dict and the cache afterwards
get_schema(cache, tables, inspect_fails) ==
    LET d == IF cache.held THEN [raised |-> FALSE, info |-> cache.info, cache |-> cache]
             ELSE detect_schema(cache, tables, inspect_fails)
    IN  IF d.raised THEN [error |-> "inspect failed", schema |-> <<>>, cache |-> d.cache]
        ELSE [error |-> None,
              schema |-> IF d.cache.held THEN d.cache.info.tables ELSE <<>>,
              cache |-> d.cache]

NO_SCHEMA == "No database schema available."

\* "".join of the characters of a name, and sep.join of a list of strings
RECURSIVE Text(_)
Text(chars) == IF chars = <<>> THEN "" ELSE Head(chars) \o Text(Tail(chars))

RECURSIVE join(_, _)
join(sep, strs) ==
    IF strs = <<>> THEN ""
    ELSE IF Len(strs) = 1 THEN strs[1]
    ELSE strs[1] \o sep \o join(sep, Tail(strs))

\* str(len(...)) for the table counts of the model
CountText(n) == CASE n = 0 -> "0" [] n = 1 -> "1" [] n = 2 -> "2" [] OTHER -> "3"

\* lines 214-221: the line of one column
column_line(col) ==
    "  " \o col.name \o " " \o col.type
         \o (IF col.primary_key THEN " PRIMARY KEY" ELSE "")
         \o (IF ~col.nullable THEN " NOT NULL" ELSE "")

\* lines 210-225: the CREATE TABLE block of one table
table_block(table) ==
    <<"CREATE TABLE " \o Text(table.table_name) \o " (",
      join(",\n", [i \in 1..Len(table.columns) |-> column_line(table.columns[i])]),
      ");", "">>

\* lines 227-232: the relationships section
relationship_lines(relationships) ==
    IF relationships = <<>> THEN <<>>
    ELSE <<"RELATIONSHIPS:">>
         \o [i \in 1..Len(relationships) |->
                "- " \o Text(relationships[i].from_table) \o "."
                     \o relationships[i].from_column \o " -> "    \* the arrow of line 230
                     \o Text(relationships[i].to_table) \o "."
                     \o relationships[i].to_column]
         \o <<"">>

\* a faulty variant of format_schema_for_llm: an empty description gives the empty string
format_schema_for_llm_blank(info) ==
    IF "tables" \notin DOMAIN info \/ info.tables = <<>> THEN ""
    ELSE "The database is SQLITE."

\* format_schema_for_llm(schema_info): the sentinel for a description that is
\* missing, has no "tables" entry or has no tables; otherwise the text
format_schema_for_llm(info) ==
    IF "tables" \notin DOMAIN info \/ info.tables = <<>> THEN NO_SCHEMA
    ELSE join("\n",
              <<"The database is SQLITE.",
                "The database contains " \o CountText(Len(info.tables)) \o " table(s): "
                    \o join(", ", [i \in 1..Len(info.tables) |->
                                      BQ \o Text(info.tables[i].table_name) \o BQ])
                    \o ".",
                "", "SCHEMAS:", "">>
              \o Flatten([i \in 1..Len(info.tables) |-> table_block(info.tables[i])])
              \o (IF "relationships" \in DOMAIN info
                  THEN relationship_lines(info.relationships) ELSE <<>>))

\* the response of a schema handler, and for the record the cache it found, the
\* tables the store held and whether the inspection of the store failed
NoSchemaResp == [op |-> "none", raised |-> 0, info |-> EmptyInfo, schema |-> <<>>,
                 error |-> None, before |-> NoCache, store |-> {},
                 inspect_fails |-> FALSE]

SInit ==
    /\ schema_cache = NoCache
    /\ s_pc = "off"
    /\ s_resp = NoSchemaResp

\* the tables of the store change (DDL run outside the application)
AlterStore(tables) ==
    /\ tables # db_tables
    /\ db_tables' = tables
    /\ UNCHANGED <<GEMINI_API_KEY, OPENAI_API_KEY, llm, q_resp, q_trace>>
    /\ UNCHANGED <<dvars, cvars, svars>>

\* startup_event lines 99-108: the chat provider is fixed, the schema detected
\* and the translator initialised with its text; discovery follows
StartupDetect(inspect_fails) ==
    /\ s_pc = "off"
    /\ LET d == detect_schema(schema_cache, db_tables, inspect_fails)
       IN  /\ schema_cache' = d.cache
           /\ mcp_chat_provider' = main_provider(GEMINI_API_KEY, OPENAI_API_KEY)
           /\ IF d.raised
              THEN /\ s_pc' = "failed"
                   /\ llm' = llm
              ELSE /\ s_pc' = "serving"
                   /\ llm' = [llm EXCEPT !["main"] =
                                initialize_llm_with_schema(format_schema_for_llm(d.info),
                                                           GEMINI_API_KEY, OPENAI_API_KEY)]
           /\ s_resp' = [NoSchemaResp EXCEPT !.op = "startup",
                                             !.raised = IF d.raised THEN 500 ELSE 0,
                                             !.info = d.info,
                                             !.before = schema_cache,
                                             !.store = db_tables,
                                             !.inspect_fails = inspect_fails]
    /\ UNCHANGED <<GEMINI_API_KEY, OPENAI_API_KEY, db_tables, q_resp, q_trace>>
    /\ UNCHANGED <<mcp_chat_model, chat_sessions, heap, now, turn, clear_resp>>
    /\ UNCHANGED dvars

\* POST /internal/refresh-schema
refresh_database_schema(inspect_fails) ==
    /\ s_pc = "serving"
    /\ LET r == refresh_schema(schema_cache, db_tables, inspect_fails)
       IN  /\ schema_cache' = r.cache
           /\ llm' = IF r.raised THEN llm
                     ELSE [llm EXCEPT !["main"] =
                             initialize_llm_with_schema(format_schema_for_llm(r.info),
                                                        GEMINI_API_KEY, OPENAI_API_KEY)]
           /\ s_resp' = [NoSchemaResp EXCEPT !.op = "refresh",
                                             !.raised = IF r.raised THEN 500 ELSE 0,
                                             !.info = r.info,
                                             !.before = schema_cache,
                                             !.store = db_tables,
                                             !.inspect_fails = inspect_fails]
    /\ s_pc' = s_pc
    /\ UNCHANGED <<GEMINI_API_KEY, OPENAI_API_KEY, db_tables, q_resp, q_trace>>
    /\ UNCHANGED <<dvars, cvars>>

\* GET /schema
get_database_schema(inspect_fails) ==
    /\ s_pc = "serving"
    /\ LET r == get_schema(schema_cache, db_tables, inspect_fails)
       IN  /\ schema_cache' = r.cache
           /\ s_resp' = [NoSchemaResp EXCEPT !.op = "get",
                                             !.raised = IF r.error # None THEN 500 ELSE 0,
                                             !.schema = r.schema,
                                             !.error = r.error,
                                             !.before = schema_cache,
                                             !.store = db_tables,
                                             !.inspect_fails = inspect_fails]
    /\ s_pc' = s_pc
    /\ UNCHANGED <<qvars, dvars, cvars>>

SNext ==
    \/ \E tables \in SchemaTableSets : AlterStore(tables)
    \/ \E inspect_fails \in BOOLEAN : StartupDetect(inspect_fails)
    \/ \E inspect_fails \in BOOLEAN : refresh_database_schema(inspect_fails)
    \/ \E inspect_fails \in BOOLEAN : get_database_schema(inspect_fails)

-----------------------------------------------------------------------------
(* Specifications.                                                         *)

\* the process when its modules have been imported
Init == QInit /\ DInit /\ CInit /\ SInit

\* the query side: translator, guard, execution, table data
SpecQuery == Init /\ [][QNext]_vars

\* startup: provider selection and tool discovery over the registry
SpecDiscovery == Init /\ [][DNext]_vars

\* the schema cache, startup and refresh
SpecSchema == Init /\ [][SNext]_vars

\* what the servers do during the startup that precedes the chat requests
ChatServerOutcomes ==
    {[reachable |-> FALSE, tools |-> <<>>, bad |-> 0],
     [reachable |-> TRUE, tools |-> <<"query_database">>, bad |-> 0]}

\* the state startup_event leaves behind
Started(outcomes) ==
    LET reg == get_tools_from_all_mcp_servers(outcomes)
    IN  /\ GEMINI_API_KEY \in BOOLEAN
        /\ OPENAI_API_KEY \in BOOLEAN
        /\ llm = [p \in Procs |->
                    IF p = "main"
                    THEN initialize_llm_with_schema("schema", GEMINI_API_KEY, OPENAI_API_KEY)
                    ELSE NoLLM]
        /\ db_tables = {T_employees, T_departments}
        /\ q_resp = NoResp
        /\ q_trace = <<>>
        /\ TOOL_TO_SERVER_MAP = reg.map
        /\ all_function_declarations = reg.decls
        /\ d_pc = "returned"
        /\ d_next = NumServers + 1
        /\ d_listed = [i \in 1..NumServers |->
                          IF outcomes[i].reachable THEN Range(outcomes[i].tools) ELSE {}]
        /\ d_reachable = {i \in 1..NumServers : outcomes[i].reachable}
        /\ d_log = {i \in 1..NumServers : ~outcomes[i].reachable}
        /\ d_pass = 1
        /\ d_prev = EmptyMap
        /\ d_view = NoView
        /\ mcp_chat_provider = main_provider(GEMINI_API_KEY, OPENAI_API_KEY)
        /\ mcp_chat_model = build_chat_model(mcp_chat_provider, reg.decls)
        /\ chat_sessions = EmptyStore
        /\ heap = EmptyHeap
        /\ now = 0
        /\ turn = [t \in Turns |-> IdleTurn]
        /\ clear_resp = NoClearResp
        /\ SInit

InitChat == \E o \in ChatServerOutcomes : Started([i \in 1..NumServers |-> o])

\* the chat requests, served once startup is over
SpecChat == InitChat /\ [][CNext]_vars

\* later discovery passes, from the state startup leaves behind
SpecRediscovery == InitChat /\ [][RNext]_vars

\* Two requests in flight at a time.  The runs explored are those in which a
\* request on the client's session id arrives at a process whose store is
\* empty, and one second request, on the same id or on a fresh one, arrives
\* while the first is in flight; deletes and the clock run at any point.
FirstRequest ==
    /\ chat_sessions = EmptyStore
    /\ turn["t2"].pc = "idle"
    /\ \E requested_id \in ClientSessionIds : ChatStart("t1", requested_id)

\* (the second slot has left no message in any history so far)
SecondRequest(requested_id) ==
    /\ turn["t1"].pc # "idle"
    /\ \A o \in DOMAIN heap : \A i \in 1..Len(heap[o]) : heap[o][i].t # "t2"
    /\ DOMAIN chat_sessions \cap UuidSessionIds = {}
    /\ ChatStart("t2", requested_id)

ConcurrentNext ==
    \/ FirstRequest
    \/ \E requested_id \in ClientSessionIds \cup {None} : SecondRequest(requested_id)
    \/ \E t \in Turns : ChatResume(t)
    \/ \E t \in Turns : ChatReturn(t)
    \/ \E session_id \in SessionIds : clear_chat_session(session_id)
    \/ \E d \in ClockPoints : Tick(d)

SpecChatConcurrent == InitChat /\ [][ConcurrentNext]_vars

\* one request at a time on a store that is empty when it arrives
TurnNext ==
    \/ FirstRequest
    \/ \E t \in SeqTurns : ChatResume(t)
    \/ \E t \in SeqTurns : ChatReturn(t)
    \/ \E session_id \in ClientSessionIds : clear_chat_session(session_id)
    \/ \E d \in ClockPoints : Tick(d)

\* the turn when every call to a tool server returns or fails in the end
SpecChatLive ==
    InitChat /\ [][TurnNext]_vars /\ \A t \in SeqTurns : WF_vars(ChatResume(t))

-----------------------------------------------------------------------------
(* Claims about the query side, checked under SpecQuery.                   *)

\* q holds keyword k somewhere, each letter in either case
ContainsAnyCase(q, k) ==
    \E i \in 1..(Len(q) - Len(k) + 1) :
        \A j \in 1..Len(k) : q[i + j - 1] \in {k[j], lower_char(k[j])}

\* is_read_only of the spec: no denylisted keyword in any letter case
is_read_only(q) == ~(\E k \in Denylist : ContainsAnyCase(q, k))

\* the last handler went through execute_read_query
RanExecuteReadQuery == q_resp.op \in {"query", "mcp_query"} /\ q_resp.raised = 0

SentToStore(q) == \E i \in 1..Len(q_trace) : q_trace[i] = DbEv(q)
NothingSentToStore == \A i \in 1..Len(q_trace) : q_trace[i].ev # "db"

\* C1: a query holding INSERT, UPDATE, DELETE, DROP, ALTER, TRUNCATE, REPLACE or
\* CREATE in any combination of letter cases, at any position, gets the error
\* payload "Only SELECT queries are allowed." from execute_read_query and is
\* never sent to the store.
C1_DenylistedQueryRefused ==
    (RanExecuteReadQuery /\ ~is_read_only(q_resp.sql)) =>
        /\ q_resp.error = ONLY_SELECT
        /\ q_resp.data = None
        /\ NothingSentToStore

\* C1 witness: DROP in mixed case inside a string literal has been refused
C1_Witness ==
    /\ q_resp.op = "query"
    /\ q_resp.sql = <<"'", "d", "R", "o", "P", "'">>
    /\ q_resp.error = ONLY_SELECT
    /\ NothingSentToStore

\* C2 as claimed: whatever the backend does, the string generate_sql returns
\* passes the guard.
C2_TranslateAlwaysReadOnly ==
    RanExecuteReadQuery => is_read_only(q_resp.sql)

\* C2 as amended: generate_sql returns a string that passes the guard whenever the
\* backend call fails or is not made; a string taken from the backend's text may
\* fail the guard, and then execute_read_query refuses it, so that every string
\* the translator paths send to the store passes the guard.
C2_TranslateGuardedAtExecution ==
    RanExecuteReadQuery =>
        /\ q_resp.backend \in {"raise", "uncalled"} => is_read_only(q_resp.sql)
        /\ ~is_read_only(q_resp.sql) => q_resp.error = ONLY_SELECT
        /\ \A i \in 1..Len(q_trace) :
               q_trace[i].ev = "db" => q_trace[i].q = q_resp.sql /\ is_read_only(q_resp.sql)

\* C2 witness: the backend answered with a fenced DELETE, generate_sql returned
\* it unfenced and execute_read_query refused it
C2_Witness ==
    /\ q_resp.op = "query"
    /\ q_resp.backend = "text"
    /\ q_resp.sql = K_DELETE
    /\ q_resp.error = ONLY_SELECT
    /\ NothingSentToStore

\* C3 as claimed: every statement sent to the store was first passed by the
\* guard, evaluated on that very string, on every path (POST /query, the
\* query_database tool, get_table_data).
C3_GuardBeforeEveryExecution ==
    \A j \in 1..Len(q_trace) :
        q_trace[j].ev = "db" =>
            \E i \in 1..(j - 1) : q_trace[i] = GuardEv(q_trace[j].q, TRUE)

\* C4: when the translator is not initialised, has no provider or its backend
\* call raises, generate_sql returns "SELECT 1 LIMIT 0;" and raises nothing; the
\* guard passes it and the caller goes on to execute it.
C4_FallbackOnTranslatorFailure ==
    (RanExecuteReadQuery /\ q_resp.backend \in {"raise", "uncalled"}) =>
        /\ q_resp.sql = FALLBACK_SQL
        /\ is_read_only(q_resp.sql)
        /\ q_trace = <<GuardEv(FALLBACK_SQL, TRUE), DbEv(FALLBACK_SQL)>>
        /\ q_resp.error # ONLY_SELECT

\* C4 witness: the backend call of an initialised translator raised, and the
\* fallback was executed
C4_Witness ==
    /\ q_resp.op = "query"
    /\ q_resp.g.provider = "openai"
    /\ q_resp.backend = "raise"
    /\ q_resp.sql = FALLBACK_SQL
    /\ SentToStore(FALLBACK_SQL)

-----------------------------------------------------------------------------
(* Claims about the chat turn, checked under SpecChat.                     *)

Answered(t) == turn[t].pc = "answered"

\* the chat history of the session the turn t works on
HistoryOf(t) == heap[turn[t].chat]

\* C5 as claimed: a turn that ends with type=error, for either provider, leaves
\* the history of its session as it found it.
C5_ErrorTurnLeavesHistoryUntouched ==
    \A t \in Turns :
        (Answered(t) /\ turn[t].resp.type = "error" /\ turn[t].chat # NoObj) =>
            HistoryOf(t) = turn[t].before

\* C6: whatever fails during a turn (the session store finding no chat model, the
\* first or the second model call raising, a malformed model response), the turn
\* ends with a response of type error that carries the description of the failure
\* and the session id of the turn; nothing is raised to the caller.
C6_FailureBecomesErrorResponse ==
    \A t \in Turns :
        Answered(t) =>
            /\ turn[t].resp.type \in {"direct", "mcp_tool", "error"}
            /\ turn[t].resp.session_id = turn[t].session_id
            /\ turn[t].failure # None =>
                   /\ turn[t].resp.type = "error"
                   /\ turn[t].resp.response[2] = turn[t].failure
            /\ (mcp_chat_model = NoModel) => turn[t].failure # None

\* C6 witness: the second model call of a tool turn failed and the turn answered
\* with type error
C6_Witness ==
    /\ Answered("t1")
    /\ turn["t1"].sends = 2
    /\ turn["t1"].failure = "model call failed"
    /\ turn["t1"].resp.type = "error"
    /\ turn["t1"].resp.session_id = "uuid-1"

IsErrorPayload(p) == p.error # None /\ p.data = None

\* C7: when the model asks for a tool that has no route, no server is contacted
\* and the tool result is an error payload; when the owning server's call raises,
\* returns no content or returns text that is not JSON, the tool result is an
\* error payload; either way the payload is sent back to the model on the same
\* chat object and the turn is answered, never failing on the tool call itself.
C7_ToolFailureIsStructured ==
    \A t \in Turns :
        (Answered(t) /\ turn[t].tool_name # None) =>
            LET fr == turn[t]
                no_route == fr.tool_name \notin DOMAIN TOOL_TO_SERVER_MAP
            IN  /\ no_route => fr.contacted = <<>> /\ fr.tool_outcome = None
                /\ ~no_route => fr.contacted = <<TOOL_TO_SERVER_MAP[fr.tool_name]>>
                /\ fr.sends = 2
                /\ fr.failure # "tool call failed"
                /\ fr.resp.type \in {"mcp_tool", "error"}
                /\ fr.resp.type = "mcp_tool" =>
                       /\ no_route => fr.resp.tool_result = NoRoutePayload
                       /\ (no_route \/ fr.tool_outcome \in {"raise", "no_content", "bad_json"})
                              => IsErrorPayload(fr.resp.tool_result)
                       /\ \E i \in 1..Len(HistoryOf(t)) :
                              HistoryOf(t)[i] = Msg("function_response", t)

\* C7 witness: the call to the owning server raised, the error payload went back
\* to the model and the turn answered with it
C7_Witness ==
    /\ Answered("t1")
    /\ turn["t1"].contacted # <<>>
    /\ turn["t1"].tool_outcome = "raise"
    /\ turn["t1"].resp.type = "mcp_tool"
    /\ IsErrorPayload(turn["t1"].resp.tool_result)

\* a step in which the request of slot t calls get_or_create_chat_session
CallsGetOrCreate(t) == turn[t].pc = "idle" /\ turn'[t].pc # "idle"

\* ... and is handed a session
GetsSession(t) == CallsGetOrCreate(t) /\ turn'[t].chat # NoObj

IdleFor(sessions, sid) == now - sessions[sid].last_accessed

IsPrefix(a, b) == Len(a) <= Len(b) /\ SubSeq(b, 1, Len(a)) = a

\* C15: a turn on a session id last accessed no longer ago than the timeout works
\* on the chat object stored for it and finds the history the earlier turns
\* left; a turn on an id last accessed longer ago (or never) gets a new object
\* with no turn in it; each turn that is answered without error has added exactly
\* one user turn to what it found.
C15_SessionContinuity ==
    /\ [](\A t \in Turns :
              (Answered(t) /\ turn[t].chat # NoObj /\ turn[t].resp.type # "error") =>
                  /\ IsPrefix(turn[t].before, HistoryOf(t))
                  /\ UserTurns(HistoryOf(t)) = UserTurns(turn[t].before) + 1)
    /\ [][\A t \in Turns :
              GetsSession(t) =>
                  LET sid == turn'[t].session_id
                  IN  IF sid \in DOMAIN chat_sessions
                         /\ IdleFor(chat_sessions, sid) <= SESSION_TIMEOUT
                      THEN /\ turn'[t].chat = chat_sessions[sid].chat
                           /\ turn'[t].before = heap[chat_sessions[sid].chat]
                      ELSE /\ turn'[t].chat \notin DOMAIN heap
                           /\ UserTurns(turn'[t].before) = 0
                           /\ Len(turn'[t].before) <= 1]_vars

\* C15 witness: the second turn of a session, made exactly when the timeout had
\* run, has been answered on top of the first
C15_Witness ==
    /\ Answered("t1")
    /\ turn["t1"].chat # NoObj
    /\ "a" \in DOMAIN chat_sessions
    /\ now = SESSION_TIMEOUT
    /\ chat_sessions["a"].last_accessed = SESSION_TIMEOUT
    /\ UserTurns(turn["t1"].before) = 1
    /\ UserTurns(HistoryOf("t1")) = 2
    /\ turn["t1"].resp.type = "direct"

\* C16: every call of get_or_create_chat_session sweeps first: after it no session
\* of the store has been idle for longer than the timeout, and every session
\* that had been idle for at most the timeout is still there; a step that is
\* neither such a call nor a DELETE leaves the store as it is, and a DELETE
\* removes nothing but the session it names.
C16_SweepOnEveryGetOrCreate ==
    [][/\ \A t \in Turns :
              CallsGetOrCreate(t) =>
                  /\ \A sid \in DOMAIN chat_sessions' :
                         IdleFor(chat_sessions', sid) <= SESSION_TIMEOUT
                  /\ \A sid \in DOMAIN chat_sessions :
                         IdleFor(chat_sessions, sid) <= SESSION_TIMEOUT
                             => sid \in DOMAIN chat_sessions'
       /\ (\A t \in Turns : ~CallsGetOrCreate(t)) =>
              IF clear_resp' = NoClearResp
              THEN chat_sessions' = chat_sessions
              ELSE DOMAIN chat_sessions \ {clear_resp'.session_id}
                       \subseteq DOMAIN chat_sessions']_vars

\* C16 witness: a call for "a" past the timeout found the session of "a" expired
\* and that of "uuid-1" not; the first was swept and made anew as object 3, the
\* second is still in the store
C16_Witness ==
    /\ turn["t1"].pc # "idle"
    /\ turn["t1"].session_id = "a"
    /\ now = SESSION_TIMEOUT + 1
    /\ DOMAIN chat_sessions = {"a", "uuid-1"}
    /\ chat_sessions["a"].chat = 3
    /\ chat_sessions["uuid-1"].last_accessed = SESSION_TIMEOUT

\* C17: a call of get_or_create_chat_session that returns a session leaves that
\* session stored under the requested id with last_accessed equal to the time of
\* the call, whether it was there before or not.
C17_LastAccessedRefreshed ==
    [][\A t \in Turns :
           GetsSession(t) =>
               LET sid == turn'[t].session_id
               IN  /\ sid \in DOMAIN chat_sessions'
                   /\ chat_sessions'[sid].last_accessed = now
                   /\ chat_sessions'[sid].chat = turn'[t].chat]_vars

\* C17 witness: a session made at the start was accessed again later and carries
\* the later time
C17_Witness ==
    /\ turn["t1"].pc # "idle"
    /\ turn["t1"].session_id = "a"
    /\ "a" \in DOMAIN chat_sessions
    /\ UserTurns(turn["t1"].before) = 1
    /\ now = SESSION_TIMEOUT
    /\ chat_sessions["a"].last_accessed = SESSION_TIMEOUT
    /\ chat_sessions["a"].chat = turn["t1"].chat

\* C18: a DELETE for an id that is not in the store answers "Session not found",
\* raises nothing and leaves the store as it is; a DELETE for an id that is in
\* the store removes that session and leaves every other session, its chat
\* history and its last_accessed, as they were.
C18_ClearRemovesOnlyThatSession ==
    [][clear_resp' # NoClearResp =>
           LET sid == clear_resp'.session_id
           IN  /\ clear_resp'.raised = 0
               /\ IF sid \in DOMAIN chat_sessions
                  THEN /\ clear_resp'.message = "Session cleared"
                       /\ DOMAIN chat_sessions' = DOMAIN chat_sessions \ {sid}
                  ELSE /\ clear_resp'.message = "Session not found"
                       /\ chat_sessions' = chat_sessions
               /\ \A o \in DOMAIN chat_sessions \ {sid} :
                      /\ o \in DOMAIN chat_sessions'
                      /\ chat_sessions'[o] = chat_sessions[o]
                      /\ heap'[chat_sessions'[o].chat] = heap[chat_sessions[o].chat]]_vars

\* C18 witness: the session "a" has just been cleared while "uuid-1", with a turn
\* in its history, is still in the store
C18_Witness ==
    /\ clear_resp = [message |-> "Session cleared", session_id |-> "a", raised |-> 0]
    /\ DOMAIN chat_sessions = {"uuid-1"}
    /\ UserTurns(heap[chat_sessions["uuid-1"].chat]) = 1

\* the payload the code builds for the tool request of the turn
ExpectedToolPayload(fr) ==
    IF fr.contacted = <<>> THEN NoRoutePayload ELSE tool_result_data(fr.tool_outcome).payload

\* the messages a turn has added to the history it found
AddedBy(t) == SubSeq(HistoryOf(t), Len(turn[t].before) + 1, Len(HistoryOf(t)))

\* C21: in one turn a tool server is called at most once and the model at most
\* twice; the turn that is answered has made the second model call exactly when
\* the first response asked for a tool, that call was given the result of that
\* tool (the data or the error payload) on the chat object of the session, and
\* a tool request in the second response is not carried out: no other server
\* call and no third model call follow it.
C21_AtMostOneToolHop ==
    \A t \in Turns :
        LET fr == turn[t]
        IN  /\ Len(fr.contacted) <= 1
            /\ fr.sends <= 2
            /\ fr.pc = "awaiting_tool" => fr.sends = 1 /\ fr.tool_name # None
            /\ (Answered(t) /\ fr.chat # NoObj) =>
                   /\ fr.sends = 2 <=> fr.tool_name # None
                   /\ fr.sends = 2 =>
                          /\ fr.function_response = ExpectedToolPayload(fr)
                          /\ fr.chat \in DOMAIN heap
                          /\ fr.failure # "model call failed" =>
                                 /\ Len(AddedBy(t)) = 4
                                 /\ AddedBy(t)[3] = Msg("function_response", t)
                          /\ fr.resp.type = "mcp_tool" =>
                                 /\ fr.resp.tool_used = fr.tool_name
                                 /\ fr.resp.tool_result = fr.function_response

\* C21 witness: the second response of a tool turn asked for a tool again; the
\* one server call of the turn had been made, and the turn ended there
C21_Witness ==
    /\ Answered("t1")
    /\ turn["t1"].chat # NoObj
    /\ turn["t1"].sends = 2
    /\ turn["t1"].tool_outcome = "ok"
    /\ Len(turn["t1"].contacted) = 1
    /\ Len(AddedBy("t1")) = 4
    /\ AddedBy("t1")[4] = Msg("function_call", "t1")

\* C20 as claimed: whichever backend is active, the first model call of a turn
\* goes out with the tool descriptors that discovery aggregated.
C20_FirstCallCarriesTools ==
    \A t \in Turns :
        turn[t].sends >= 1 => turn[t].sent_tools = all_function_declarations

-----------------------------------------------------------------------------
(* Claims about tool discovery, checked under SpecDiscovery (the pass of   *)
(* startup) and SpecRediscovery (later passes).                            *)

PassOver == d_pc = "returned"

\* the names listed by the servers that could be reached
ListedByReachable == UNION {d_listed[i] : i \in d_reachable}

DeclaredNames ==
    {all_function_declarations[i].name : i \in 1..Len(all_function_declarations)}

\* C8 as claimed: after a pass in which any of the servers are unreachable, the
\* tools of every reachable server are registered, the routing table has as many
\* entries as the reachable servers list distinct names, and with no server
\* reachable the registry is empty.
C8_ReachableServersRegistered ==
    PassOver =>
        /\ DOMAIN TOOL_TO_SERVER_MAP = ListedByReachable
        /\ DeclaredNames = ListedByReachable
        /\ Cardinality(DOMAIN TOOL_TO_SERVER_MAP) = Cardinality(ListedByReachable)
        /\ d_reachable = {} =>
               TOOL_TO_SERVER_MAP = EmptyMap /\ all_function_declarations = <<>>

\* C9 as claimed: after every pass the names routed are the names declared.
C9_RoutesMatchDescriptors ==
    PassOver => DOMAIN TOOL_TO_SERVER_MAP = DeclaredNames

\* C10 as claimed: after a pass the aggregated list holds at most one descriptor
\* per tool name, the one of the server registered last.
C10_OneDescriptorPerName ==
    PassOver =>
        \A i, j \in 1..Len(all_function_declarations) :
            all_function_declarations[i].name = all_function_declarations[j].name
                => /\ i = j
                   /\ all_function_declarations[i].server =
                          TOOL_TO_SERVER_MAP[all_function_declarations[i].name]

\* the last server of the registry, in configured order, that was reachable in
\* this pass and listed the name n
LastLister(n) ==
    CHOOSE i \in d_reachable :
        /\ n \in d_listed[i]
        /\ \A j \in d_reachable : n \in d_listed[j] => j <= i

\* C11 as claimed: after a pass every routed name points to the last server, in
\* registry order, that was reachable and listed it.
C11_LastListerOwnsRoute ==
    PassOver =>
        \A n \in DOMAIN TOOL_TO_SERVER_MAP :
            /\ n \in ListedByReachable
            /\ TOOL_TO_SERVER_MAP[n] = MCP_SERVER_REGISTRY[LastLister(n)]

\* C12: a pass replaces the routing table: when it is over the table holds only
\* names that reachable servers listed during that pass, and a name routed by
\* the pass before that no reachable server lists any more is gone.
C12_PassReplacesSnapshot ==
    PassOver =>
        /\ DOMAIN TOOL_TO_SERVER_MAP \subseteq ListedByReachable
        /\ \A n \in DOMAIN d_prev :
               n \notin ListedByReachable => n \notin DOMAIN TOOL_TO_SERVER_MAP

\* C12 witness: the second pass is over, query_database was routed by the first
\* and is not routed now, while another name is
C12_Witness ==
    /\ PassOver
    /\ d_pass = 2
    /\ "query_database" \in DOMAIN d_prev
    /\ "query_database" \notin DOMAIN TOOL_TO_SERVER_MAP
    /\ "get_database_schema" \in DOMAIN TOOL_TO_SERVER_MAP

-----------------------------------------------------------------------------
(* Claims about the schema cache and backend selection, under SpecSchema.  *)

\* C14 as claimed: when refresh_schema has returned a description the cache holds
\* that description, and a refresh that fails leaves the description it found;
\* the cache is never left cleared.
C14_RefreshReplacesCacheAtomically ==
    s_resp.op = "refresh" =>
        IF s_resp.raised = 0
        THEN schema_cache = Cached(s_resp.info)
        ELSE schema_cache = s_resp.before

\* the backend the two credentials select, case by case
ExpectedBackend ==
    CASE GEMINI_API_KEY /\ OPENAI_API_KEY   -> "gemini"
      [] GEMINI_API_KEY /\ ~OPENAI_API_KEY  -> "gemini"
      [] ~GEMINI_API_KEY /\ OPENAI_API_KEY  -> "openai"
      [] OTHER                              -> None

\* C19: once the process serves, the translator's provider and the chat
\* provider are both the backend the credentials select (Gemini when both are
\* present, OpenAI only without the Gemini one, none otherwise), and neither
\* changes with any refresh of the schema.
C19_OneBackendFixedPrecedence ==
    /\ [](s_pc = "serving" =>
              /\ llm["main"].provider = ExpectedBackend
              /\ mcp_chat_provider = ExpectedBackend)
    /\ [][s_pc = "serving" =>
              /\ llm'["main"].provider = llm["main"].provider
              /\ mcp_chat_provider' = mcp_chat_provider]_vars

\* C19 witness: both credentials present, the schema refreshed after a change of
\* the store, and the translator still on Gemini with its new instruction
C19_Witness ==
    /\ GEMINI_API_KEY /\ OPENAI_API_KEY
    /\ s_pc = "serving"
    /\ s_resp.op = "refresh"
    /\ s_resp.raised = 0
    /\ s_resp.before.held /\ s_resp.before.info # s_resp.info
    /\ llm["main"].provider = "gemini"
    /\ llm["main"].SYSTEM_INSTRUCTION = format_schema_for_llm(s_resp.info)
    /\ mcp_chat_provider = "gemini"

\* the last handler was a detection (at startup or by a refresh) that returned
Detected == s_resp.op \in {"startup", "refresh"} /\ s_resp.raised = 0

\* descriptions Python takes as missing: None or {}, and one without "tables"
NoDescription == <<>>
NoTablesEntry == [relationships |-> <<>>]

\* C22: on a store with no tables (that can be inspected) detect_schema raises
\* nothing and returns a description with no tables and no relationships, the
\* translator is given the sentinel text for it, and format_schema_for_llm
\* returns the sentinel, which is not the empty string, for every description
\* without tables and for a missing one.
C22_EmptyDatabaseTolerated ==
    /\ NO_SCHEMA # ""
    /\ format_schema_for_llm(NoDescription) = NO_SCHEMA
    /\ format_schema_for_llm(NoTablesEntry) = NO_SCHEMA
    /\ format_schema_for_llm(EmptyInfo) = NO_SCHEMA
    /\ format_schema_for_llm([EmptyInfo EXCEPT !.relationships =
                                 fk_edges(T_ghost, get_foreign_keys(T_employees)[1])])
           = NO_SCHEMA
    /\ (s_resp.op \in {"startup", "refresh"} /\ s_resp.store = {} /\ ~s_resp.inspect_fails) =>
           /\ s_resp.raised = 0
           /\ s_resp.info.tables = <<>>
           /\ s_resp.info.relationships = <<>>
           /\ format_schema_for_llm(s_resp.info) = NO_SCHEMA
           /\ llm["main"].SYSTEM_INSTRUCTION = NO_SCHEMA

\* C22 witness: the store lost its tables, the schema was refreshed and the
\* translator now holds the sentinel
C22_Witness ==
    /\ s_resp.op = "refresh"
    /\ s_resp.before.held
    /\ s_resp.store = {}
    /\ s_resp.raised = 0
    /\ s_resp.info = EmptyInfo
    /\ llm["main"].SYSTEM_INSTRUCTION = NO_SCHEMA

\* the table names of a description
TablesOf(info) == {info.tables[i].table_name : i \in 1..Len(info.tables)}

\* C23 as claimed: in every description detect_schema returns, each relationship
\* runs from a table of the description to a table of the description.
C23_RelationshipEndpointsPresent ==
    Detected =>
        \A i \in 1..Len(s_resp.info.relationships) :
            /\ s_resp.info.relationships[i].from_table \in TablesOf(s_resp.info)
            /\ s_resp.info.relationships[i].to_table \in TablesOf(s_resp.info)

\* the edges of a description that leave the table n, in their order
EdgesFrom(info, n) == SelectSeq(info.relationships, LAMBDA e : e.from_table = n)

\* the number of constrained columns of the foreign keys before the k-th
RECURSIVE WidthBefore(_, _)
WidthBefore(fks, k) ==
    IF k <= 1 THEN 0
    ELSE WidthBefore(fks, k - 1) + Len(fks[k - 1].constrained_columns)

\* the description has, for each table of the store, one descriptor whose columns
\* are flagged primary_key exactly when the primary-key constraint names them
PrimaryKeysFlagged(info, tables) ==
    /\ TablesOf(info) = tables
    /\ \A i \in 1..Len(info.tables) :
           LET table == info.tables[i]
               pk == Range(get_pk_constraint(table.table_name).constrained_columns)
           IN  /\ Len(table.columns) = Len(get_columns(table.table_name))
               /\ \A c \in 1..Len(table.columns) :
                      /\ table.columns[c].name = get_columns(table.table_name)[c].name
                      /\ table.columns[c].primary_key <=> table.columns[c].name \in pk

PairsWithReferred(e, fk, i) ==
    i <= Len(fk.referred_columns) /\ e.to_column = fk.referred_columns[i]

PairsWithReferredOrId(e, fk, i) ==
    e.to_column = IF i <= Len(fk.referred_columns) THEN fk.referred_columns[i] ELSE "id"

\* for each foreign key of each table there are as many edges as it has
\* constrained columns, and the i-th of them runs from the i-th constrained
\* column to the referred table, pairing it with the i-th referred column
\* (or, when or_id is set, with "id" where the store reports no i-th one)
FanOut(info, tables, or_id) ==
    \A n \in tables :
        LET fks == get_foreign_keys(n)
            edges == EdgesFrom(info, n)
        IN  /\ Len(edges) = WidthBefore(fks, Len(fks) + 1)
            /\ \A k \in 1..Len(fks) :
                   \A i \in 1..Len(fks[k].constrained_columns) :
                       LET e == edges[WidthBefore(fks, k) + i]
                       IN  /\ e.from_column = fks[k].constrained_columns[i]
                           /\ e.to_table = fks[k].referred_table
                           /\ IF or_id THEN PairsWithReferredOrId(e, fks[k], i)
                              ELSE PairsWithReferred(e, fks[k], i)

\* C24 as claimed: a foreign key with k constrained columns gives k edges, the
\* i-th from the i-th constrained column to the i-th referred column, and
\* primary_key flags the columns of the primary-key constraint.
C24_FanOutPairsReferredColumns ==
    Detected =>
        /\ FanOut(s_resp.info, s_resp.store, FALSE)
        /\ s_resp.store # {} => PrimaryKeysFlagged(s_resp.info, s_resp.store)

\* C24 as amended: a foreign key with k constrained columns gives k edges, the
\* i-th from the i-th constrained column to the i-th referred column when the
\* store reports one and to the column name "id" when it reports fewer
\* referred columns; primary_key flags exactly the columns of the primary-key
\* constraint.
C24_FanOutPairsReferredOrId ==
    Detected =>
        /\ FanOut(s_resp.info, s_resp.store, TRUE)
        /\ Len(s_resp.info.relationships) =
               Len(Flatten([i \in 1..Len(get_table_names(s_resp.store)) |->
                               EdgesFrom(s_resp.info, get_table_names(s_resp.store)[i])]))
        /\ s_resp.store # {} => PrimaryKeysFlagged(s_resp.info, s_resp.store)

\* C24 witness: a table with a composite primary key and a composite foreign key
\* has been described: two edges for the composite key, the second pairing the
\* second columns, and both columns of the primary key flagged
C24_Witness ==
    /\ Detected
    /\ T_updates \in s_resp.store
    /\ LET edges == EdgesFrom(s_resp.info, T_updates)
           table == s_resp.info.tables[Len(s_resp.info.tables)]
       IN  /\ Len(edges) = 3
           /\ edges[2] = [from_table |-> T_updates, from_column |-> "department_id",
                          to_table |-> T_employees, to_column |-> "department_id"]
           /\ table.table_name = T_updates
           /\ table.columns[1].primary_key /\ table.columns[2].primary_key
           /\ ~table.columns[3].primary_key

\* C25 as claimed: once a detection or a refresh has returned a description the
\* cache holds that description, also one without tables, and get_schema
\* answers from the cache it finds, with the tables of that description.
C25_CacheHoldsLastDetection ==
    /\ Detected => schema_cache = Cached(s_resp.info)
    /\ s_resp.op = "get" =>
           /\ s_resp.before.held
           /\ schema_cache = s_resp.before
           /\ s_resp.raised = 0
           /\ s_resp.schema = s_resp.before.info.tables

\* C30 as claimed: a refresh whose detection raises leaves the cache and the
\* translator's instruction as they were, and the endpoint reports the failure.
C30_FailedRefreshChangesNothing ==
    [][(s_resp'.op = "refresh" /\ s_resp'.inspect_fails) =>
           /\ s_resp'.raised = 500
           /\ schema_cache' = schema_cache
           /\ llm'["main"] = llm["main"]]_vars

-----------------------------------------------------------------------------
(* Claims about requests in flight together, under SpecChatConcurrent and   *)
(* SpecChatLive.                                                           *)

Awaiting(t) == turn[t].pc = "awaiting_tool"

\* C26: when every call to a tool server returns or fails in the end, a turn
\* that waits for one is answered in the end; it leaves the wait only when
\* that call has returned or failed (nothing else, and no passing of time, ends
\* the wait), and once it is answered its one response stays as it is until
\* the request is gone.
C26_TurnEventuallyAnswered ==
    /\ \A t \in Turns : Awaiting(t) ~> Answered(t)
    /\ [][\A t \in Turns :
              /\ (turn[t].pc = "idle" /\ turn'[t].pc # "idle") =>
                     Awaiting(t)' \/ Answered(t)'
              /\ (Awaiting(t) /\ ~Awaiting(t)') =>
                     Answered(t)' /\ turn'[t].tool_outcome # None
              /\ Answered(t) => (turn'[t] = turn[t] \/ turn'[t] = IdleTurn)]_vars

\* C26 witness: the clock has passed the session timeout while the turn is
\* still waiting for the tool server
C26_Witness ==
    /\ Awaiting("t1")
    /\ now = SESSION_TIMEOUT + 1
    /\ turn["t1"].sends = 1
    /\ turn["t1"].tool_outcome = None

\* the request of slot t waits for a tool server and its session is in the store
WaitsOnStored(t) ==
    /\ Awaiting(t)
    /\ turn[t].session_id \in DOMAIN chat_sessions
    /\ chat_sessions[turn[t].session_id].chat = turn[t].chat

\* C27: nothing keeps a second request off a session whose turn is in flight: a
\* request that arrives for the session id of a turn waiting for its tool
\* server is handed the same chat object at once, while the first still waits,
\* finds the first turn's message and tool request as the end of the history
\* and adds its own message right after them, before the tool result of the
\* first turn.
C27_NoMutualExclusion ==
    [][\A t, u \in Turns :
           (/\ t # u
            /\ WaitsOnStored(t)
            /\ IdleFor(chat_sessions, turn[t].session_id) <= SESSION_TIMEOUT
            /\ CallsGetOrCreate(u)
            /\ turn'[u].session_id = turn[t].session_id) =>
               /\ turn'[u].chat = turn[t].chat
               /\ turn'[t] = turn[t]
               /\ turn'[u].before = heap[turn[t].chat]
               /\ turn[t].before \o <<Msg("user", t), Msg("function_call", t)>>
                      = heap[turn[t].chat]
               /\ IsPrefix(heap[turn[t].chat], heap'[turn[t].chat])
               /\ turn'[u].failure # "model call failed" =>
                      /\ Len(heap'[turn[t].chat]) >= Len(heap[turn[t].chat]) + 2
                      /\ heap'[turn[t].chat][Len(heap[turn[t].chat]) + 1] = Msg("user", u)]_vars

\* C27 witness: both turns on the session "a" are answered and its history runs
\* message and tool request of the first, message and answer of the second,
\* tool result and answer of the first
C27_Witness ==
    /\ Answered("t1") /\ Answered("t2")
    /\ turn["t1"].session_id = "a" /\ turn["t2"].session_id = "a"
    /\ turn["t1"].chat = turn["t2"].chat
    /\ turn["t1"].chat # NoObj
    /\ HistoryOf("t1") = <<Msg("user", "t1"), Msg("function_call", "t1"),
                            Msg("user", "t2"), Msg("model", "t2"),
                            Msg("function_response", "t1"), Msg("model", "t1")>>

\* the slot t has moved in this step: its request was taken or went on
Moves(t) == turn'[t] # turn[t] /\ turn'[t].pc # "idle"

\* C28: a step of a turn on one session leaves every session stored under
\* another id as it was, its chat object, its history and its last_accessed,
\* and leaves the history another request works on under another id as it was;
\* the one exception is that the sweep of get_or_create_chat_session removes
\* the sessions that have been idle for longer than the timeout.
C28_OtherSessionsUntouched ==
    [][\A t \in Turns :
           Moves(t) =>
               /\ \A B \in DOMAIN chat_sessions \ {turn'[t].session_id} :
                      IF B \in DOMAIN chat_sessions'
                      THEN /\ chat_sessions'[B] = chat_sessions[B]
                           /\ heap'[chat_sessions[B].chat] = heap[chat_sessions[B].chat]
                      ELSE /\ CallsGetOrCreate(t)
                           /\ IdleFor(chat_sessions, B) > SESSION_TIMEOUT
               /\ \A u \in Turns \ {t} :
                      (turn[u].chat # NoObj /\ turn[u].session_id # turn'[t].session_id) =>
                          /\ turn'[u] = turn[u]
                          /\ heap'[turn[u].chat] = heap[turn[u].chat]]_vars

\* C28 witness: a request on a new session has swept the session "a", idle
\* since the start, while the turn on "a" waits; the history that turn works on
\* is as it left it, and the new session holds the new turn alone
C28_Witness ==
    /\ Awaiting("t1")
    /\ turn["t1"].session_id = "a"
    /\ turn["t2"].pc # "idle"
    /\ turn["t2"].session_id = "uuid-1"
    /\ DOMAIN chat_sessions = {"uuid-1"}
    /\ now = SESSION_TIMEOUT + 1
    /\ HistoryOf("t1") = <<Msg("user", "t1"), Msg("function_call", "t1")>>
    /\ HistoryOf("t2") = <<Msg("user", "t2"), Msg("model", "t2")>>

\* C29 as claimed: when a turn ends without error, the store holds a session
\* under the id of the turn, it is the one the turn worked on, and its history
\* ends with what the turn added.
C29_HistoryUpdateNeverLost ==
    [][\A t \in Turns :
           (/\ ~Answered(t)
            /\ Answered(t)'
            /\ turn'[t].chat # NoObj
            /\ turn'[t].resp.type # "error") =>
               /\ turn'[t].session_id \in DOMAIN chat_sessions'
               /\ chat_sessions'[turn'[t].session_id].chat = turn'[t].chat
               /\ \E i \in 1..Len(heap'[turn'[t].chat]) :
                      heap'[turn'[t].chat][i] = Msg("user", t)]_vars

=============================================================================
